---- MODULE Spec2Model ----
(***************************************************************************)
(* Agentic RAG: document ingestion (src/src/document_processor.py), tool   *)
(* catalog (src/src/tool_factory.py), semantic router                      *)
(* (src/src/agent_worker.py) and reasoning loop (src/src/agent_runner.py). *)
(*                                                                         *)
(* Text is a sequence of one-character strings, so that the string         *)
(* functions of the source (_slugify, the tool-name templates, str/int)    *)
(* are computed and not assumed.                                           *)
(***************************************************************************)
EXTENDS Naturals, Integers, Sequences, FiniteSets, TLC

(***************************************************************************)
(* Bounds of the model.                                                    *)
(***************************************************************************)
\* longest file content, in bytes
MaxFileLen == 1
\* distinct completions the language model may give for one prompt
MaxSummary == 2
\* process_all runs in one behaviour
MaxRuns == 2
\* file writes (uploads, edits) in one behaviour
MaxEdits == 1
\* largest top_k a caller passes to select_tools
MaxTopK == 3
\* longest text given to _chunk_text on its own
MaxTextLen == 6
\* largest chunk_size given to _chunk_text on its own
MaxChunkSize == 4
\* pandas tool invocations that may run at the same time
MaxInvocations == 2
\* longest content of a file that DATA_DIR holds before the first run, where
\* three distinct contents are needed
MaxStartLen == 2

(***************************************************************************)
(* Program constants (src/src/config.py).                                  *)
(***************************************************************************)
MAX_CHUNK_CHARS == 2048
CHUNK_OVERLAP_CHARS == 200
TOP_K_TOOLS == 3
TOP_K_CHUNKS == 5
MAX_REASONING_STEPS == 3
\* slug[:63] and len(slug) < 3 in _slugify, full_text[:6000] in _process_one
SlugMaxLen == 63
SlugMinLen == 3
SummaryInputChars == 6000

(***************************************************************************)
(* Characters and strings.                                                 *)
(***************************************************************************)
Digits == <<"0", "1", "2", "3", "4", "5", "6", "7", "8", "9">>
UpperCase == <<"A", "B", "C", "D", "E", "F", "G", "H", "I", "J", "K", "L", "M",
               "N", "O", "P", "Q", "R", "S", "T", "U", "V", "W", "X", "Y", "Z">>
LowerCase == <<"a", "b", "c", "d", "e", "f", "g", "h", "i", "j", "k", "l", "m",
               "n", "o", "p", "q", "r", "s", "t", "u", "v", "w", "x", "y", "z">>
\* the characters of the model in code-point order (Path ordering in sorted())
CodePoints == <<" ", "-", ".">> \o Digits \o UpperCase \o <<"_">> \o LowerCase

Range(s) == {s[i] : i \in DOMAIN s}

IndexIn(s, c) == CHOOSE i \in DOMAIN s : s[i] = c

Ord(c) == IndexIn(CodePoints, c)

\* str.lower() on one character
LowerChar(c) == IF c \in Range(UpperCase) THEN LowerCase[IndexIn(UpperCase, c)] ELSE c

\* str.lower()
Lower(s) == [i \in DOMAIN s |-> LowerChar(s[i])]

\* the character class [a-z0-9] of the regular expression in _slugify
IsSlugChar(c) == c \in Range(LowerCase) \cup Range(Digits)

\* s < t for str / Path comparison (lexicographic by code point)
RECURSIVE StrLess(_, _)
StrLess(s, t) ==
    IF t = <<>> THEN FALSE
    ELSE IF s = <<>> THEN TRUE
    ELSE IF s[1] # t[1] THEN Ord(s[1]) < Ord(t[1])
    ELSE StrLess(Tail(s), Tail(t))

\* index of the last "." of a file name, 0 if there is none
LastDot(name) ==
    LET dots == {i \in DOMAIN name : name[i] = "."}
    IN IF dots = {} THEN 0 ELSE CHOOSE i \in dots : \A j \in dots : j <= i

\* Path(name).suffix: from the last dot, unless the name starts there
PathSuffix(name) ==
    IF LastDot(name) > 1 /\ LastDot(name) < Len(name)
    THEN SubSeq(name, LastDot(name), Len(name)) ELSE <<>>

\* Path(name).stem
PathStem(name) ==
    IF PathSuffix(name) = <<>> THEN name ELSE SubSeq(name, 1, LastDot(name) - 1)

\* re.sub(r"[^a-z0-9]+", "_", s): every maximal run of other characters
\* becomes one "_" ("_" is itself outside the class, so the output never
\* holds two "_" in a row)
RECURSIVE ReSubRuns(_, _)
ReSubRuns(s, out) ==
    IF s = <<>> THEN out
    ELSE IF IsSlugChar(s[1]) THEN ReSubRuns(Tail(s), Append(out, s[1]))
    ELSE IF out # <<>> /\ out[Len(out)] = "_" THEN ReSubRuns(Tail(s), out)
    ELSE ReSubRuns(Tail(s), Append(out, "_"))

\* str.strip("_")
RECURSIVE StripUnderscores(_)
StripUnderscores(s) ==
    IF s = <<>> THEN s
    ELSE IF s[1] = "_" THEN StripUnderscores(Tail(s))
    ELSE IF s[Len(s)] = "_" THEN StripUnderscores(SubSeq(s, 1, Len(s) - 1))
    ELSE s

\* s[:n]
Prefix(s, n) == SubSeq(s, 1, IF Len(s) < n THEN Len(s) ELSE n)

\* _slugify(name)
_slugify(name) ==
    LET slug == StripUnderscores(ReSubRuns(Lower(PathStem(name)), <<>>))
        padded == IF Len(slug) < SlugMinLen THEN slug \o <<"_", "d", "o", "c">> ELSE slug
    IN Prefix(padded, SlugMaxLen)

\* str(n) for a natural number
RECURSIVE IntToStr(_)
IntToStr(n) == IF n < 10 THEN <<Digits[n + 1]>> ELSE Append(IntToStr(n \div 10), Digits[(n % 10) + 1])

\* int(s) for a string of decimal digits
RECURSIVE StrToInt(_)
StrToInt(s) ==
    IF Len(s) = 1 THEN IndexIn(Digits, s[1]) - 1
    ELSE 10 * StrToInt(SubSeq(s, 1, Len(s) - 1)) + (IndexIn(Digits, s[Len(s)]) - 1)

\* str(b) for a bool
BoolToStr(b) == IF b THEN "True" ELSE "False"

(***************************************************************************)
(* The upload directory (DATA_DIR) and the persisted store.                *)
(***************************************************************************)
\* "A.md" and "a.txt" (narrative), "t-1.csv" (tabular)
FileNames == { <<"A", ".", "m", "d">>,
               <<"a", ".", "t", "x", "t">>,
               <<"t", "-", "1", ".", "c", "s", "v">> }

\* the bytes a file may hold
FileBytes == {"x"}

FileContents == UNION {[1..n -> FileBytes] : n \in 0..MaxFileLen}

\* the contents a file may hold before the first run
StartContents == UNION {[1..n -> FileBytes] : n \in 0..MaxStartLen}

\* an optional value is a sequence of length 0 or 1
None == <<>>
Some(x) == <<x>>

supported_text == {<<".", "p", "d", "f">>, <<".", "t", "x", "t">>, <<".", "m", "d">>}
supported_tabular == {<<".", "c", "s", "v">>, <<".", "x", "l", "s">>, <<".", "x", "l", "s", "x">>}

\* the documents build_tools may be given records of: the files of DATA_DIR
\* and "notes.pdf", a narrative document of an earlier DATA_DIR
DocNames == FileNames \cup { <<"n", "o", "t", "e", "s", ".", "p", "d", "f">> }

Slugs == {_slugify(n) : n \in FileNames}

DocCollection(slug) == <<"d", "o", "c", "_">> \o slug
TabularData == <<"t", "a", "b", "u", "l", "a", "r", "_", "d", "a", "t", "a">>

CollNames == {DocCollection(s) : s \in Slugs}

VARIABLES
    files,        \* DATA_DIR: file name -> Some(bytes), or None
    meta,         \* collection "document-meta": slug -> Some([document, metadata]), or None
    colls,        \* chunk collections: name -> Some([ids, documents, embeddings, metadatas]), or None
    ppc,          \* where process_all / _process_one stands
    queue,        \* sorted(files) still to be processed by the loop of process_all
    results,      \* results of the running (or last) process_all
    cur,          \* locals of the running _process_one
    embedCalls,   \* embed_model.encode calls made by the running (or last) process_all
    llmCalls,     \* llm_chat calls made by the running (or last) process_all
    reprocessed,  \* files that entered the full pipeline in the running (or last) run
    loadFailed,   \* files whose tabular load raised inside _analyze_tabular in that run
    failed,       \* Some([file, step]) of the call that raised out of that run, or None
    startFiles,   \* DATA_DIR as it was when that run started
    startMeta,    \* "document-meta" as it was when that run started
    startColls,   \* the chunk collections as they were when that run started
    prevFiles,    \* DATA_DIR as it was when the run before started
    prevResults,  \* Some(what the run before returned), None if none returned
    runs,         \* process_all runs started
    edits         \* file writes made

ingestVars == <<files, meta, colls, ppc, queue, results, cur, embedCalls, llmCalls,
                reprocessed, loadFailed, failed, startFiles, startMeta, startColls,
                prevFiles, prevResults, runs, edits>>

VARIABLES
    catalog,      \* "tool-descriptions": id -> Some([tool_type, document_name]), or None
    tdExists,     \* the collection "tool-descriptions" has been created
    builtTools,   \* Some(the list the last build_tools returned), or None
    buildError,   \* the exception of the last build_tools, "" if it returned
    worker,       \* Some(AgentWorker.tools, the name -> Tool map), or None
    selected,     \* the list a select_tools call has just returned
    selectArgs    \* [called, top_k, allowed_docs] of that call

routeVars == <<catalog, tdExists, builtTools, buildError, worker, selected, selectArgs>>

VARIABLES
    rpc,            \* where AgentRunner.run stands
    entry,          \* the caller: "main" (main.py) or "server" (get_bot_reply)
    callDocs,       \* the docs list get_bot_reply was given ({} for None)
    query,          \* the query string
    selected_tools, \* run: the tools select_tools returned
    called_tools,   \* run: names of the tools called so far
    context_parts,  \* run: the labelled tool results, in order
    step,           \* run: the loop variable
    pending,        \* run: the tool whose function is executing, <<>> if none
    decisionCalls,  \* llm_chat calls made by the loop for a decision
    synthCalls,     \* llm_chat calls made by _synthesize_final
    synthPrompts,   \* the prompts _synthesize_final sent to llm_chat, in order
    toolCalls,      \* [tool, arg] of every tool.function call, in order
    last_response,  \* run: raw_response of the latest decision call
    answer,         \* what run returned
    error           \* the exception that left run, "" if none

runVars == <<rpc, entry, callDocs, query, selected_tools, called_tools, context_parts,
             step, pending, decisionCalls, synthCalls, synthPrompts, toolCalls, last_response,
             answer, error>>

VARIABLES
    chunkArgs,      \* [text, chunk_size, overlap] of a _chunk_text call
    chunkOut        \* Some(the list the call returned), None before it returns

chunkVars == <<chunkArgs, chunkOut>>

\* build_tools of a second process on the same store, step by step, and a
\* routing query of the running one
VARIABLES
    bpc,            \* where that build_tools is: "idle", "upsert", "write"
    bTools,         \* the tools its upsert has still to write
    bInfos,         \* doc_infos, the records that build_tools was given
    seen            \* the ids the routing query got, and where the build was then

rebuildVars == <<bpc, bTools, bInfos, seen>>

\* invocations of a pandas tool's function, pandas_fn
VARIABLES
    sys_stdout,       \* sys.stdout of the process: "original", or the StringIO of an invocation
    ipc,              \* invocation -> where its pandas_fn stands
    code,             \* invocation -> what the generated code does when executed
    old_stdout,       \* invocation -> its local old_stdout
    captured_output,  \* invocation -> the text written to its StringIO
    local_result,     \* invocation -> local_vars["result"] after exec
    returned          \* invocation -> what pandas_fn returned, or the exception that left it

pandasVars == <<sys_stdout, ipc, code, old_stdout, captured_output, local_result, returned>>

\* an invocation of a vector tool's function, vector_fn
VARIABLES
    vpc,      \* where vector_fn stands: "idle", "get", "query", "returned", "raised"
    vColl,    \* _cname, the collection name the function closes over
    vStale,   \* the collection behind its handle was deleted after get_collection
    vOut      \* what it observed and returned

searchVars == <<vpc, vColl, vStale, vOut>>

vars == <<ingestVars, routeVars, runVars, chunkVars, rebuildVars, pandasVars, searchVars>>

(***************************************************************************)
(* Helpers of document_processor.py.                                       *)
(***************************************************************************)
\* _file_hash: the MD5 digest of the bytes, taken as collision-free on the
\* bounded contents of the model
_file_hash(bytes) == <<"md5", bytes>>

IsWhitespace(c) == c \in {" ", "\n", "\t"}

\* str.strip()
RECURSIVE Strip(_)
Strip(s) ==
    IF s = <<>> THEN s
    ELSE IF IsWhitespace(s[1]) THEN Strip(Tail(s))
    ELSE IF IsWhitespace(s[Len(s)]) THEN Strip(SubSeq(s, 1, Len(s) - 1))
    ELSE s

\* s[a:b] with 0-based a, Python slice semantics
Slice(s, a, b) == SubSeq(s, a + 1, IF Len(s) < b THEN Len(s) ELSE b)

EmptyDocument == <<"(", "e", "m", "p", "t", "y", " ", "d", "o", "c", "u", "m", "e", "n", "t", ")">>

\* the while loop of _chunk_text
RECURSIVE ChunkLoop(_, _, _, _, _)
ChunkLoop(text, start, chunks, chunk_size, overlap) ==
    IF start < Len(text)
    THEN LET chunk == Slice(text, start, start + chunk_size)
         IN ChunkLoop(text, start + chunk_size - overlap,
                      IF Strip(chunk) # <<>> THEN Append(chunks, Strip(chunk)) ELSE chunks,
                      chunk_size, overlap)
    ELSE chunks

\* the windows of the loop alone, without the fallback of the return
_chunk_text_loop_only(text, chunk_size, overlap) == ChunkLoop(text, 0, <<>>, chunk_size, overlap)

\* _chunk_text(text, chunk_size, overlap)
_chunk_text(text, chunk_size, overlap) ==
    LET chunks == ChunkLoop(text, 0, <<>>, chunk_size, overlap)
    IN IF chunks # <<>> THEN chunks
       ELSE <<IF Strip(text) # <<>> THEN Strip(text) ELSE EmptyDocument>>

\* the concurrent invocations of pandas_fn
Invocations == 1..MaxInvocations

\* sys.stdout before any redirection
Original == <<"stdout">>

\* the StringIO of invocation k
StringIO(k) == <<"StringIO", k>>

\* what executing the generated code does: it may print, may assign result,
\* and ends normally, with an Exception, or with SystemExit (exit(),
\* sys.exit(), raise SystemExit), which is a BaseException
Codes ==
    [printed : {<<>>, <<" ">>, <<"o">>, <<" ", "o">>},
     result : {None, Some(<<"r">>)},
     ends : {"normal", "Exception", "SystemExit"}]

NoCode == [printed |-> <<>>, result |-> None, ends |-> "none"]

NotReturned == [kind |-> "none", text |-> <<>>]

\* nothing returned by vector_fn yet
NoSearchResult == [kind |-> "none", chunks |-> <<>>, observed |-> "", ingest |-> ""]

\* the texts given to _chunk_text on its own: letters and blanks
ChunkTexts == UNION {[1..n -> {"x", " "}] : n \in 0..MaxTextLen}

NoChunkArgs == [text |-> <<>>, chunk_size |-> 1, overlap |-> 0]

\* no _chunk_text call of its own is under way
InitChunkIdle ==
    /\ chunkArgs = NoChunkArgs
    /\ chunkOut = None
    /\ bpc = "idle"
    /\ bTools = <<>>
    /\ bInfos = <<>>
    /\ seen = [called |-> FALSE, ids |-> <<>>, during |-> "idle"]
    /\ sys_stdout = Original
    /\ ipc = [k \in Invocations |-> "idle"]
    /\ code = [k \in Invocations |-> NoCode]
    /\ old_stdout = [k \in Invocations |-> Original]
    /\ captured_output = [k \in Invocations |-> <<>>]
    /\ local_result = [k \in Invocations |-> None]
    /\ returned = [k \in Invocations |-> NotReturned]
    /\ vpc = "idle"
    /\ vColl = <<>>
    /\ vStale = FALSE
    /\ vOut = NoSearchResult

\* a call _chunk_text(text, chunk_size, overlap) returns
ChunkText ==
    /\ chunkOut = None
    /\ chunkOut' = Some(_chunk_text(chunkArgs.text, chunkArgs.chunk_size, chunkArgs.overlap))
    /\ UNCHANGED chunkArgs
    /\ UNCHANGED <<ingestVars, routeVars, runVars, rebuildVars, pandasVars, searchVars>>

\* "Code executed successfully but `result` variable was None."
NoResultMessage == <<"n", "o", " ", "r", "e", "s", "u", "l", "t">>

\* "Error executing pandas code:\n" and the traceback
ErrorText == <<"E", "r", "r", "o", "r">>

\* a choice that prefers the printed output to the result variable
ReturnTextOutputFirst(result, output_str) ==
    IF output_str # <<>> THEN output_str
    ELSE IF result # None THEN result[1]
    ELSE NoResultMessage

\* pandas_fn after a normal exec: str(result) if result is not None, else
\* the stripped captured output if it is not empty, else the message
ReturnText(result, output_str) ==
    IF result # None THEN result[1]
    ELSE IF output_str # <<>> THEN output_str
    ELSE NoResultMessage

\* pandas_fn is called: llm_chat returns the code to execute
PandasCall ==
    \E k \in Invocations :
        /\ ipc[k] = "idle"
        /\ \E c \in Codes : code' = [code EXCEPT ![k] = c]
        /\ ipc' = [ipc EXCEPT ![k] = "save"]
        /\ UNCHANGED <<sys_stdout, old_stdout, captured_output, local_result, returned>>
        /\ UNCHANGED <<ingestVars, routeVars, runVars, chunkVars, rebuildVars, searchVars>>

\* old_stdout = sys.stdout
SaveStdout ==
    \E k \in Invocations :
        /\ ipc[k] = "save"
        /\ old_stdout' = [old_stdout EXCEPT ![k] = sys_stdout]
        /\ ipc' = [ipc EXCEPT ![k] = "redirect"]
        /\ UNCHANGED <<sys_stdout, code, captured_output, local_result, returned>>
        /\ UNCHANGED <<ingestVars, routeVars, runVars, chunkVars, rebuildVars, searchVars>>

\* captured_output = io.StringIO(); sys.stdout = captured_output
RedirectStdout ==
    \E k \in Invocations :
        /\ ipc[k] = "redirect"
        /\ sys_stdout' = StringIO(k)
        /\ ipc' = [ipc EXCEPT ![k] = "exec"]
        /\ UNCHANGED <<code, old_stdout, captured_output, local_result, returned>>
        /\ UNCHANGED <<ingestVars, routeVars, runVars, chunkVars, rebuildVars, searchVars>>

\* exec(code, {}, local_vars): what the code prints goes to the stream
\* sys.stdout is at that time; SystemExit is not an Exception and leaves
\* pandas_fn past the except clause
ExecCode ==
    \E k \in Invocations :
        /\ ipc[k] = "exec"
        /\ captured_output' =
              [j \in Invocations |->
                  IF sys_stdout = StringIO(j) THEN captured_output[j] \o code[k].printed
                  ELSE captured_output[j]]
        /\ IF code[k].ends = "normal"
           THEN /\ local_result' = [local_result EXCEPT ![k] = code[k].result]
                /\ ipc' = [ipc EXCEPT ![k] = "restore"]
                /\ UNCHANGED returned
           ELSE IF code[k].ends = "Exception"
           THEN /\ ipc' = [ipc EXCEPT ![k] = "except"]
                /\ UNCHANGED <<local_result, returned>>
           ELSE /\ ipc' = [ipc EXCEPT ![k] = "raised"]
                /\ returned' = [returned EXCEPT ![k] = [kind |-> "SystemExit", text |-> <<>>]]
                /\ UNCHANGED local_result
        /\ UNCHANGED <<sys_stdout, code, old_stdout>>
        /\ UNCHANGED <<ingestVars, routeVars, runVars, chunkVars, rebuildVars, searchVars>>

\* sys.stdout = old_stdout, after a normal exec
RestoreStdout ==
    \E k \in Invocations :
        /\ ipc[k] = "restore"
        /\ sys_stdout' = old_stdout[k]
        /\ ipc' = [ipc EXCEPT ![k] = "return"]
        /\ UNCHANGED <<code, old_stdout, captured_output, local_result, returned>>
        /\ UNCHANGED <<ingestVars, routeVars, runVars, chunkVars, rebuildVars, searchVars>>

\* output_str = captured_output.getvalue().strip(), and the return
PandasReturn ==
    \E k \in Invocations :
        /\ ipc[k] = "return"
        /\ returned' = [returned EXCEPT ![k] =
                           [kind |-> "str",
                            text |-> ReturnText(local_result[k], Strip(captured_output[k]))]]
        /\ ipc' = [ipc EXCEPT ![k] = "returned"]
        /\ UNCHANGED <<sys_stdout, code, old_stdout, captured_output, local_result>>
        /\ UNCHANGED <<ingestVars, routeVars, runVars, chunkVars, rebuildVars, searchVars>>

\* except Exception: sys.stdout = old_stdout, return the error text
ExceptReturn ==
    \E k \in Invocations :
        /\ ipc[k] = "except"
        /\ sys_stdout' = old_stdout[k]
        /\ returned' = [returned EXCEPT ![k] = [kind |-> "str", text |-> ErrorText]]
        /\ ipc' = [ipc EXCEPT ![k] = "returned"]
        /\ UNCHANGED <<code, old_stdout, captured_output, local_result>>
        /\ UNCHANGED <<ingestVars, routeVars, runVars, chunkVars, rebuildVars, searchVars>>

\* _extract_text for .txt / .md: read_text(encoding="utf-8", errors="replace")
\* of ASCII bytes
_extract_text(name, bytes) ==
    IF Lower(PathSuffix(name)) \in {<<".", "t", "x", "t">>, <<".", "m", "d">>, <<".", "c", "s", "v">>}
    THEN bytes
    ELSE <<"[", "B", "i", "n", "a", "r", "y", "]">>

\* pd.read_csv / pd.read_excel inside _analyze_tabular: an empty file raises
\* EmptyDataError, bytes that are no workbook make read_excel raise
TabularLoads(name, bytes) ==
    Lower(PathSuffix(name)) = <<".", "c", "s", "v">> /\ Len(bytes) > 0

\* _analyze_tabular: the structure text, or the error text when the load raises
\* (the except branch returns a string, the exception does not propagate)
_analyze_tabular(name, bytes) ==
    IF TabularLoads(name, bytes)
    THEN [kind |-> "structure", file |-> name, text |-> bytes]
    ELSE [kind |-> "Error analyzing tabular file", file |-> <<>>, text |-> <<>>]

\* embed_model.encode on one text (deterministic for a model version)
Embed(text) == <<"vec", text>>

\* f"{slug}_chunk_{i}"
ChunkId(slug, i) == slug \o <<"_", "c", "h", "u", "n", "k", "_">> \o IntToStr(i)

\* the files process_all iterates over: is_file() with a supported suffix, sorted
Supported(fs) ==
    {f \in FileNames : fs[f] # None /\ (Lower(PathSuffix(f)) \in supported_text
                                          \/ Lower(PathSuffix(f)) \in supported_tabular)}

RECURSIVE SortedSeq(_)
SortedSeq(S) ==
    IF S = {} THEN <<>>
    ELSE LET m == CHOOSE x \in S : \A y \in S \ {x} : StrLess(x, y)
         IN <<m>> \o SortedSeq(S \ {m})

\* the DocumentInfo returned by the hash-match branch of _process_one
CachedInfo(name, slug, collection_name, is_tabular, existing) ==
    [name |-> name,
     slug |-> slug,
     summary |-> existing.document,
     chunk_count |-> StrToInt(existing.metadata.chunk_count),
     collection_name |-> collection_name,
     is_tabular |-> (existing.metadata.is_tabular = "True"),
     file_path |-> name]

Idle == ppc \in {"idle", "done", "raised"}

(***************************************************************************)
(* DocumentProcessor.process_all and _process_one, one external call per   *)
(* step.                                                                   *)
(***************************************************************************)
NoSummary == [prompt |-> [kind |-> "none", file |-> <<>>, text |-> <<>>], v |-> 0]

NoCur == [name |-> <<>>, slug |-> <<>>, collection_name |-> <<>>, current_hash |-> <<>>,
          is_tabular |-> FALSE, full_text |-> <<>>, chunks |-> <<>>, chunk_count |-> 0,
          structure |-> NoSummary.prompt, summary |-> NoSummary]

\* the completions llm_chat may return for a prompt
Completions(prompt) == {[prompt |-> prompt, v |-> v] : v \in 1..MaxSummary}

\* the DocumentInfo built at the end of the full pipeline
FreshInfo(c) ==
    [name |-> c.name,
     slug |-> c.slug,
     summary |-> c.summary,
     chunk_count |-> c.chunk_count,
     collection_name |-> c.collection_name,
     is_tabular |-> c.is_tabular,
     file_path |-> c.name]

\* process_all up to the loop: list the supported files, return [] if none
ProcessAllStart ==
    /\ Idle
    /\ runs < MaxRuns
    /\ runs' = runs + 1
    /\ prevFiles' = startFiles
    /\ prevResults' = IF ppc = "done" THEN Some(results) ELSE None
    /\ startFiles' = files
    /\ startMeta' = meta
    /\ startColls' = colls
    /\ embedCalls' = 0
    /\ llmCalls' = 0
    /\ reprocessed' = {}
    /\ loadFailed' = {}
    /\ failed' = None
    /\ results' = <<>>
    /\ cur' = NoCur
    /\ queue' = SortedSeq(Supported(files))
    /\ ppc' = IF Supported(files) = {} THEN "done" ELSE "loop"
    /\ UNCHANGED <<files, meta, colls, edits>>
    /\ UNCHANGED <<routeVars, runVars, chunkVars, rebuildVars, pandasVars, searchVars>>

\* the loop of process_all has no file left: return results
ProcessAllReturn ==
    /\ ppc = "loop"
    /\ queue = <<>>
    /\ ppc' = "done"
    /\ UNCHANGED <<files, meta, colls, queue, results, cur, embedCalls, llmCalls,
                   reprocessed, loadFailed, failed, startFiles, startMeta, startColls,
                   prevFiles, prevResults, runs, edits>>
    /\ UNCHANGED <<routeVars, runVars, chunkVars, rebuildVars, pandasVars, searchVars>>

\* _process_one up to the hash check: the cached DocumentInfo on a match,
\* the full pipeline otherwise
ProcessOneBegin ==
    /\ ppc = "loop"
    /\ queue # <<>>
    /\ LET file_path == Head(queue)
           is_tabular == Lower(PathSuffix(file_path)) \in supported_tabular
           slug == _slugify(file_path)
           collection_name == IF ~is_tabular THEN DocCollection(slug) ELSE TabularData
           current_hash == _file_hash(files[file_path][1])
           existing == meta[slug]
       IN /\ queue' = Tail(queue)
          /\ IF existing # None /\ existing[1].metadata.file_hash = current_hash
             THEN /\ results' = Append(results,
                                       CachedInfo(file_path, slug, collection_name, is_tabular, existing[1]))
                  /\ UNCHANGED <<ppc, cur, reprocessed>>
             ELSE /\ cur' = [NoCur EXCEPT !.name = file_path, !.slug = slug,
                                          !.collection_name = collection_name,
                                          !.current_hash = current_hash,
                                          !.is_tabular = is_tabular]
                  /\ reprocessed' = reprocessed \cup {file_path}
                  /\ ppc' = IF is_tabular THEN "tab_analyze" ELSE "extract"
                  /\ UNCHANGED results
    /\ UNCHANGED <<files, meta, colls, embedCalls, llmCalls, loadFailed, failed,
                   startFiles, startMeta, startColls, prevFiles, prevResults, runs, edits>>
    /\ UNCHANGED <<routeVars, runVars, chunkVars, rebuildVars, pandasVars, searchVars>>

\* narrative 1-2: _extract_text, _chunk_text
ExtractText ==
    /\ ppc = "extract"
    /\ LET full_text == _extract_text(cur.name, files[cur.name][1])
           chunks == _chunk_text(full_text, MAX_CHUNK_CHARS, CHUNK_OVERLAP_CHARS)
       IN cur' = [cur EXCEPT !.full_text = full_text, !.chunks = chunks,
                             !.chunk_count = Len(chunks)]
    /\ ppc' = "embed"
    /\ UNCHANGED <<files, meta, colls, queue, results, embedCalls, llmCalls,
                   reprocessed, loadFailed, failed, startFiles, startMeta, startColls,
                   prevFiles, prevResults, runs, edits>>
    /\ UNCHANGED <<routeVars, runVars, chunkVars, rebuildVars, pandasVars, searchVars>>

\* narrative 3: embed_model.encode(chunks), one batched call
EmbedChunks ==
    /\ ppc = "embed"
    /\ embedCalls' = embedCalls + 1
    /\ ppc' = "delete"
    /\ UNCHANGED <<files, meta, colls, queue, results, cur, llmCalls,
                   reprocessed, loadFailed, failed, startFiles, startMeta, startColls,
                   prevFiles, prevResults, runs, edits>>
    /\ UNCHANGED <<routeVars, runVars, chunkVars, rebuildVars, pandasVars, searchVars>>

\* narrative 4a: delete_collection, any exception swallowed; a handle that a
\* running vector_fn holds on the collection is dead from then on
DeleteCollection ==
    /\ ppc = "delete"
    /\ colls' = [colls EXCEPT ![cur.collection_name] = None]
    /\ vStale' = (vStale \/ (vpc = "query" /\ vColl = cur.collection_name))
    /\ ppc' = "create"
    /\ UNCHANGED <<files, meta, queue, results, cur, embedCalls, llmCalls,
                   reprocessed, loadFailed, failed, startFiles, startMeta, startColls,
                   prevFiles, prevResults, runs, edits>>
    /\ UNCHANGED <<vpc, vColl, vOut>>
    /\ UNCHANGED <<routeVars, runVars, chunkVars, rebuildVars, pandasVars>>

EmptyCollection == [ids |-> <<>>, documents |-> <<>>, embeddings |-> <<>>, metadatas |-> <<>>]

\* narrative 4b: create_collection
CreateCollection ==
    /\ ppc = "create"
    /\ colls[cur.collection_name] = None
    /\ colls' = [colls EXCEPT ![cur.collection_name] = Some(EmptyCollection)]
    /\ ppc' = "add"
    /\ UNCHANGED <<files, meta, queue, results, cur, embedCalls, llmCalls,
                   reprocessed, loadFailed, failed, startFiles, startMeta, startColls,
                   prevFiles, prevResults, runs, edits>>
    /\ UNCHANGED <<routeVars, runVars, chunkVars, rebuildVars, pandasVars, searchVars>>

\* narrative 4c: collection.add(ids, documents, embeddings, metadatas)
AddChunks ==
    /\ ppc = "add"
    /\ colls[cur.collection_name] # None
    /\ colls' = [colls EXCEPT ![cur.collection_name] =
                    Some([ids |-> [i \in DOMAIN cur.chunks |-> ChunkId(cur.slug, i - 1)],
                          documents |-> cur.chunks,
                          embeddings |-> [i \in DOMAIN cur.chunks |-> Embed(cur.chunks[i])],
                          metadatas |-> [i \in DOMAIN cur.chunks |->
                                            [source |-> cur.name, chunk_index |-> i - 1]]])]
    /\ ppc' = "summarize"
    /\ UNCHANGED <<files, meta, queue, results, cur, embedCalls, llmCalls,
                   reprocessed, loadFailed, failed, startFiles, startMeta, startColls,
                   prevFiles, prevResults, runs, edits>>
    /\ UNCHANGED <<routeVars, runVars, chunkVars, rebuildVars, pandasVars, searchVars>>

\* narrative 5: llm_chat on the first 6000 characters of the text
Summarize ==
    /\ ppc = "summarize"
    /\ \E summary \in Completions([kind |-> "document", file |-> <<>>,
                                   text |-> Prefix(cur.full_text, SummaryInputChars)]) :
          cur' = [cur EXCEPT !.summary = summary]
    /\ llmCalls' = llmCalls + 1
    /\ ppc' = "upsert"
    /\ UNCHANGED <<files, meta, colls, queue, results, embedCalls,
                   reprocessed, loadFailed, failed, startFiles, startMeta, startColls,
                   prevFiles, prevResults, runs, edits>>
    /\ UNCHANGED <<routeVars, runVars, chunkVars, rebuildVars, pandasVars, searchVars>>

\* tabular: _analyze_tabular, which turns a load error into its return value
AnalyzeTabular ==
    /\ ppc = "tab_analyze"
    /\ cur' = [cur EXCEPT !.structure = _analyze_tabular(cur.name, files[cur.name][1])]
    /\ loadFailed' = IF TabularLoads(cur.name, files[cur.name][1])
                     THEN loadFailed ELSE loadFailed \cup {cur.name}
    /\ ppc' = "tab_summarize"
    /\ UNCHANGED <<files, meta, colls, queue, results, embedCalls, llmCalls,
                   reprocessed, failed, startFiles, startMeta, startColls,
                   prevFiles, prevResults, runs, edits>>
    /\ UNCHANGED <<routeVars, runVars, chunkVars, rebuildVars, pandasVars, searchVars>>

\* tabular: llm_chat on the structure summary; chunk_count stays 0
SummarizeTabular ==
    /\ ppc = "tab_summarize"
    /\ \E summary \in Completions(cur.structure) :
          cur' = [cur EXCEPT !.summary = summary, !.chunk_count = 0]
    /\ llmCalls' = llmCalls + 1
    /\ ppc' = "upsert"
    /\ UNCHANGED <<files, meta, colls, queue, results, embedCalls,
                   reprocessed, loadFailed, failed, startFiles, startMeta, startColls,
                   prevFiles, prevResults, runs, edits>>
    /\ UNCHANGED <<routeVars, runVars, chunkVars, rebuildVars, pandasVars, searchVars>>

\* 6: upsert the metadata under the slug, return the DocumentInfo to process_all
UpsertMeta ==
    /\ ppc = "upsert"
    /\ meta' = [meta EXCEPT ![cur.slug] =
                   Some([document |-> cur.summary,
                         metadata |-> [file_name |-> cur.name,
                                       file_hash |-> cur.current_hash,
                                       chunk_count |-> IntToStr(cur.chunk_count),
                                       collection_name |-> cur.collection_name,
                                       is_tabular |-> BoolToStr(cur.is_tabular)]])]
    /\ results' = Append(results, FreshInfo(cur))
    /\ ppc' = "loop"
    /\ UNCHANGED <<files, colls, queue, cur, embedCalls, llmCalls,
                   reprocessed, loadFailed, failed, startFiles, startMeta, startColls,
                   prevFiles, prevResults, runs, edits>>
    /\ UNCHANGED <<routeVars, runVars, chunkVars, rebuildVars, pandasVars, searchVars>>

\* the steps of _process_one that call a collaborator which may raise
RaisingSteps == {"extract", "embed", "create", "add", "summarize", "tab_summarize", "upsert"}

\* a collaborator raises: _process_one and process_all have no handler, the
\* exception leaves process_all
IngestionRaises ==
    /\ ppc \in RaisingSteps
    /\ failed' = Some([file |-> cur.name, step |-> ppc])
    /\ ppc' = "raised"
    /\ UNCHANGED <<files, meta, colls, queue, results, cur, embedCalls, llmCalls,
                   reprocessed, loadFailed, startFiles, startMeta, startColls,
                   prevFiles, prevResults, runs, edits>>
    /\ UNCHANGED <<routeVars, runVars, chunkVars, rebuildVars, pandasVars, searchVars>>

\* a file of DATA_DIR is created or overwritten between two runs
WriteFile ==
    /\ Idle
    /\ edits < MaxEdits
    /\ \E f \in FileNames, bytes \in FileContents :
          /\ files[f] # Some(bytes)
          /\ files' = [files EXCEPT ![f] = Some(bytes)]
    /\ edits' = edits + 1
    /\ UNCHANGED <<meta, colls, ppc, queue, results, cur, embedCalls, llmCalls,
                   reprocessed, loadFailed, failed, startFiles, startMeta, startColls,
                   prevFiles, prevResults, runs>>
    /\ UNCHANGED <<routeVars, runVars, chunkVars, rebuildVars, pandasVars, searchVars>>

(***************************************************************************)
(* ToolFactory (tool_factory.py): the tools of a record list and the       *)
(* routing catalog, the persisted collection "tool-descriptions".          *)
(***************************************************************************)
PandasName(slug) == <<"p", "a", "n", "d", "a", "s", "_", "a", "n", "a", "l", "y", "s", "i", "s", "_">> \o slug
VectorName(slug) == <<"v", "e", "c", "t", "o", "r", "_", "s", "e", "a", "r", "c", "h", "_">> \o slug
SummaryName(slug) == <<"s", "u", "m", "m", "a", "r", "y", "_">> \o slug

\* every id the catalog can hold in the model
ToolIds == UNION {{PandasName(_slugify(n)), VectorName(_slugify(n)), SummaryName(_slugify(n))} : n \in DocNames}

\* _make_pandas_tool: the Tool of a tabular record (function closes over the
\* dataframe loaded from file_path)
_make_pandas_tool(info) ==
    [name |-> PandasName(info.slug), tool_type |-> "pandas",
     document_name |-> info.name, resource |-> info.file_path]

\* _make_vector_tool: function closes over the collection name
_make_vector_tool(info) ==
    [name |-> VectorName(info.slug), tool_type |-> "vector",
     document_name |-> info.name, resource |-> info.collection_name]

\* _make_summary_tool: function closes over the summary text
_make_summary_tool(info) ==
    [name |-> SummaryName(info.slug), tool_type |-> "summary",
     document_name |-> info.name, resource |-> info.name]

\* a loop that makes one tool for every record
BuildListOnePerRecord(doc_infos) ==
    [i \in DOMAIN doc_infos |->
        IF doc_infos[i].is_tabular THEN _make_pandas_tool(doc_infos[i])
        ELSE _make_vector_tool(doc_infos[i])]

\* the loop of build_tools: one pandas tool for a tabular record, a vector
\* and a summary tool for any other
RECURSIVE BuildList(_)
BuildList(doc_infos) ==
    IF doc_infos = <<>> THEN <<>>
    ELSE LET info == Head(doc_infos)
         IN (IF info.is_tabular
             THEN <<_make_pandas_tool(info)>>
             ELSE <<_make_vector_tool(info), _make_summary_tool(info)>>)
            \o BuildList(Tail(doc_infos))

ToolNamesOf(tools) == [i \in DOMAIN tools |-> tools[i].name]

HasDuplicates(seq) == \E i, j \in DOMAIN seq : i # j /\ seq[i] = seq[j]

\* what td_collection.upsert(ids=names, ...) raises for the batch: the store
\* rejects an empty id list and a list that repeats an id
UpsertError(names) ==
    IF names = <<>> THEN "ValueError"
    ELSE IF HasDuplicates(names) THEN "DuplicateIDError"
    ELSE ""

\* _persist_tool_descriptions: upsert every tool under its name; ids not in
\* the batch are left as they are
_persist_tool_descriptions(cat, tools) ==
    [id \in ToolIds |->
        IF \E i \in DOMAIN tools : tools[i].name = id
        THEN LET t == tools[CHOOSE i \in DOMAIN tools : tools[i].name = id]
             IN Some([tool_type |-> t.tool_type, document_name |-> t.document_name])
        ELSE cat[id]]

\* the DocumentInfo process_all returns for a file (its summary and chunk
\* count do not enter routing)
DocumentInfoOf(name) ==
    LET is_tabular == Lower(PathSuffix(name)) \in supported_tabular
    IN [name |-> name,
        slug |-> _slugify(name),
        is_tabular |-> is_tabular,
        collection_name |-> IF is_tabular THEN TabularData ELSE DocCollection(_slugify(name)),
        file_path |-> name]

DocumentInfosOf(S) == LET names == SortedSeq(S) IN [i \in DOMAIN names |-> DocumentInfoOf(names[i])]

\* AgentWorker.__init__: {t.name: t for t in tools}, a later tool of the same
\* name replaces an earlier one
ToolMap(tools) ==
    [id \in {tools[i].name : i \in DOMAIN tools} |->
        tools[CHOOSE i \in DOMAIN tools :
                 tools[i].name = id /\ \A j \in DOMAIN tools : tools[j].name = id => j <= i]]

\* the tools build_tools makes of the records of the documents S (a table,
\* evaluated once)
ToolsFor == [S \in SUBSET DocNames |-> BuildList(DocumentInfosOf(S))] @@ <<>>

\* the records of the documents S (a table, evaluated once)
InfosFor == [S \in SUBSET DocNames |-> DocumentInfosOf(S)] @@ <<>>

NoSelectArgs == [called |-> FALSE, top_k |-> 0, allowed_docs |-> {}]

\* a process starts (server.py 47-52, main.py): build_tools(doc_infos) for the
\* records of the documents S; its AgentWorker does not exist yet, and none
\* exists when _persist_tool_descriptions raises
BuildTools ==
    /\ \E S \in SUBSET DocNames :
          LET tools == ToolsFor[S]
              err == UpsertError(ToolNamesOf(tools))
          IN /\ tdExists' = TRUE
             /\ buildError' = err
             /\ IF err = ""
                THEN /\ catalog' = _persist_tool_descriptions(catalog, tools)
                     /\ builtTools' = Some(tools)
                ELSE /\ builtTools' = None
                     /\ UNCHANGED catalog
    /\ worker' = None
    /\ selected' = <<>>
    /\ selectArgs' = NoSelectArgs
    /\ UNCHANGED <<ingestVars, runVars, chunkVars, rebuildVars, pandasVars, searchVars>>

\* a rebuild that drops the collection and creates it again
RecreateCollection(cat) == [id \in ToolIds |-> None]

\* get_or_create_collection(name="tool-descriptions"): the entries of an
\* existing collection stay
OpenCollection(cat) == cat

\* _persist_tool_descriptions of another process, first statement: the
\* collection is opened, or created when there is none
RebuildOpen ==
    /\ bpc = "idle"
    /\ \E S \in SUBSET DocNames :
          /\ bInfos' = InfosFor[S]
          /\ bTools' = ToolsFor[S]
    /\ catalog' = OpenCollection(catalog)
    /\ tdExists' = TRUE
    /\ bpc' = "upsert"
    /\ UNCHANGED <<builtTools, buildError, worker, selected, selectArgs, seen>>
    /\ UNCHANGED <<ingestVars, runVars, chunkVars, pandasVars, searchVars>>

\* td_collection.upsert(ids=names, ...): the store checks the id list, and
\* raises or goes on to write
RebuildUpsert ==
    /\ bpc = "upsert"
    /\ buildError' = UpsertError(ToolNamesOf(bTools))
    /\ IF buildError' = ""
       THEN bpc' = "write" /\ UNCHANGED <<bTools, bInfos>>
       ELSE bpc' = "idle" /\ bTools' = <<>> /\ bInfos' = <<>>
    /\ UNCHANGED <<catalog, tdExists, builtTools, worker, selected, selectArgs, seen>>
    /\ UNCHANGED <<ingestVars, runVars, chunkVars, pandasVars, searchVars>>

\* the upsert writes the entry of one tool; after the last it returns
RebuildWrite ==
    /\ bpc = "write"
    /\ catalog' = _persist_tool_descriptions(catalog, <<Head(bTools)>>)
    /\ bTools' = Tail(bTools)
    /\ bpc' = IF bTools' = <<>> THEN "idle" ELSE "write"
    /\ bInfos' = IF bTools' = <<>> THEN <<>> ELSE bInfos
    /\ UNCHANGED <<tdExists, builtTools, buildError, worker, selected, selectArgs, seen>>
    /\ UNCHANGED <<ingestVars, runVars, chunkVars, pandasVars, searchVars>>

\* AgentWorker(tools) with the list the last build_tools returned
NewWorker ==
    /\ builtTools # None
    /\ worker = None
    /\ tdExists
    /\ worker' = Some(ToolMap(builtTools[1]))
    /\ selected' = <<>>
    /\ selectArgs' = NoSelectArgs
    /\ UNCHANGED <<catalog, tdExists, builtTools, buildError>>
    /\ UNCHANGED <<ingestVars, runVars, chunkVars, rebuildVars, pandasVars, searchVars>>

(***************************************************************************)
(* AgentWorker.select_tools (agent_worker.py).                             *)
(***************************************************************************)
\* document names a caller may put in allowed_docs: the files and one name
\* that no document has
OtherDocument == <<"z", ".", "p", "d", "f">>
AllowedNames == DocNames \cup {OtherDocument}

\* a query without the where filter
VisibleUnfiltered(cat, allowed_docs) == {id \in ToolIds : cat[id] # None}

\* the ids the where filter lets through: all when allowed_docs is None or
\* empty, else those whose document_name metadata is in the list ($in)
Visible(cat, allowed_docs) ==
    {id \in ToolIds : /\ cat[id] # None
                      /\ (allowed_docs = {} \/ cat[id][1].document_name \in allowed_docs)}

RECURSIVE FilterSeq(_, _)
FilterSeq(seq, S) ==
    IF seq = <<>> THEN <<>>
    ELSE IF Head(seq) \in S THEN <<Head(seq)>> \o FilterSeq(Tail(seq), S)
    ELSE FilterSeq(Tail(seq), S)

Min(a, b) == IF a <= b THEN a ELSE b

\* the sequences of n different elements of S
Arrangements(S, n) == {r \in [1..n -> S] : \A i, j \in 1..n : i # j => r[i] # r[j]}

\* a query that ignores n_results and the where filter
QueryIdsUncut(cat, k, allowed_docs) ==
    LET ids == {id \in ToolIds : cat[id] # None}
    IN Arrangements(ids, Cardinality(ids))

\* _td_collection.query(n_results=k, where=...): the k nearest of the visible
\* ids, nearest first, fewer when fewer are visible; which ids are nearest
\* depends on the query embedding, so every order is a possible result
QueryIds(cat, k, allowed_docs) ==
    LET vis == Visible(cat, allowed_docs)
    IN Arrangements(vis, Min(k, Cardinality(vis)))

\* a selection that lists the known tools last-ranked first
select_tools_reversed(tools, ids) ==
    LET known == FilterSeq(ids, DOMAIN tools)
    IN [i \in DOMAIN known |-> tools[known[Len(known) + 1 - i]]]

\* select_tools after the query: the live Tool of every returned id that the
\* map holds, in the order returned
select_tools(tools, ids) ==
    LET known == FilterSeq(ids, DOMAIN tools)
    IN [i \in DOMAIN known |-> tools[known[i]]]

\* a direct call of worker.select_tools(query, top_k, allowed_docs); the call
\* changes nothing of the catalog or the worker, so one call is recorded per
\* catalog and worker
SelectTools ==
    /\ worker # None
    /\ ~selectArgs.called
    /\ \E top_k \in 1..MaxTopK, allowed_docs \in SUBSET AllowedNames :
          \E ids \in QueryIds(catalog, top_k, allowed_docs) :
             /\ selected' = select_tools(worker[1], ids)
             /\ selectArgs' = [called |-> TRUE, top_k |-> top_k, allowed_docs |-> allowed_docs]
    /\ UNCHANGED <<catalog, tdExists, builtTools, buildError, worker>>
    /\ UNCHANGED <<ingestVars, runVars, chunkVars, rebuildVars, pandasVars, searchVars>>

\* select_tools(query) of the running process while another rebuilds: the
\* ids the collection's query returns, and the tools they map to
RoutingQuery ==
    /\ worker # None
    /\ ~seen.called
    /\ \E ids \in QueryIds(catalog, TOP_K_TOOLS, {}) :
          /\ seen' = [called |-> TRUE, ids |-> ids, during |-> bpc]
          /\ selected' = select_tools(worker[1], ids)
    /\ selectArgs' = [called |-> TRUE, top_k |-> TOP_K_TOOLS, allowed_docs |-> {}]
    /\ UNCHANGED <<catalog, tdExists, builtTools, buildError, worker, bpc, bTools, bInfos>>
    /\ UNCHANGED <<ingestVars, runVars, chunkVars, pandasVars, searchVars>>

(***************************************************************************)
(* vector_fn of a vector tool (tool_factory.py), called by a process that  *)
(* built its tools from the records of a process_all that returned, while  *)
(* another process may be ingesting.                                       *)
(***************************************************************************)
\* the records a running process built its tools from: those of the
\* process_all that returned last
LiveRecords ==
    IF ppc = "done" THEN results
    ELSE IF prevResults # None THEN prevResults[1]
    ELSE <<>>

\* get_or_create_collection(name): an empty collection when there is none
GetOrCreateCollection(store, name) ==
    IF store[name] = None THEN Some(EmptyCollection) ELSE store[name]

\* chroma_client.get_collection(name=_cname): None stands for the exception
\* raised when there is no collection of that name
GetCollection(store, name) == store[name]

\* collection.query(n_results=k): the k nearest documents, nearest first,
\* fewer when the collection holds fewer
QueryDocuments(documents, k) ==
    LET n == Min(k, Len(documents))
    IN {[i \in 1..n |-> documents[r[i]]] : r \in Arrangements(DOMAIN documents, n)}

\* where the ingestion of the collection stands, "other" when the running
\* _process_one is not on it
IngestStepOn(name) ==
    IF cur.collection_name # name THEN "other"
    ELSE IF ppc = "raised" THEN failed[1].step
    ELSE ppc

\* a vector tool of a live record is invoked
VectorCall ==
    /\ vpc = "idle"
    /\ \E i \in DOMAIN LiveRecords :
          /\ ~LiveRecords[i].is_tabular
          /\ vColl' = LiveRecords[i].collection_name
    /\ vpc' = "get"
    /\ UNCHANGED <<vStale, vOut>>
    /\ UNCHANGED <<ingestVars, routeVars, runVars, chunkVars, rebuildVars, pandasVars>>

\* collection = self.chroma_client.get_collection(name=_cname), not guarded
VectorGetCollection ==
    /\ vpc = "get"
    /\ IF GetCollection(colls, vColl) = None
       THEN /\ vpc' = "raised"
            /\ vOut' = [kind |-> "raised", chunks |-> <<>>, observed |-> "missing",
                        ingest |-> IngestStepOn(vColl)]
       ELSE /\ vpc' = "query"
            /\ UNCHANGED vOut
    /\ vStale' = FALSE
    /\ UNCHANGED vColl
    /\ UNCHANGED <<ingestVars, routeVars, runVars, chunkVars, rebuildVars, pandasVars>>

\* collection.query(...) and the return: the chunks found, or
\* "(No relevant chunks found)"; the query raises on a dead handle
VectorQuery ==
    /\ vpc = "query"
    /\ IF vStale \/ colls[vColl] = None
       THEN /\ vpc' = "raised"
            /\ vOut' = [kind |-> "raised", chunks |-> <<>>, observed |-> "stale",
                        ingest |-> IngestStepOn(vColl)]
       ELSE /\ vpc' = "returned"
            /\ \E chunks \in QueryDocuments(colls[vColl][1].documents, TOP_K_CHUNKS) :
                  vOut' = [kind |-> IF chunks # <<>> THEN "chunks" ELSE "no_chunks",
                           chunks |-> chunks,
                           observed |-> IF chunks # <<>> THEN "filled" ELSE "empty",
                           ingest |-> IngestStepOn(vColl)]
    /\ UNCHANGED <<vColl, vStale>>
    /\ UNCHANGED <<ingestVars, routeVars, runVars, chunkVars, rebuildVars, pandasVars>>

(***************************************************************************)
(* AgentRunner.run (agent_runner.py).  A response of the language model is *)
(* described by what _parse_action and run read of it:                     *)
(*   form    "json"       the stripped text is one JSON document           *)
(*           "prose_json" not JSON as a whole; the text from the first "{" *)
(*                        to the last "}" is a JSON object                 *)
(*           "braces"     a "{" before a "}", but that text is not JSON    *)
(*           "text"       non-empty text with no such braces               *)
(*           "empty"      the empty string                                 *)
(*   type    of the JSON document: object, number, string, list, bool, null*)
(*   action, tool, answer: the fields of the object.                       *)
(***************************************************************************)
Missing == "(missing)"

\* a tool name no selected tool has
UnknownTool == <<"n", "o", "_", "s", "u", "c", "h", "_", "t", "o", "o", "l">>

Raw(form, type, action, tool_kind, tool, ans) ==
    [form |-> form, type |-> type, action |-> action, tool_kind |-> tool_kind,
     tool |-> tool, answer |-> ans]

NoRaw == Raw("none", "none", Missing, Missing, <<>>, Missing)

\* the JSON objects of the model: final_answer with an answer that is a
\* non-empty string, "", null, a number, or absent; tool_call with a tool
\* that is one of the names, absent, or a list; another or no action
JsonObjects(form, names) ==
    {Raw(form, "object", "final_answer", Missing, <<>>, a) :
        a \in {"text", "", "null", "number", Missing}}
    \cup {Raw(form, "object", "tool_call", "str", n, Missing) : n \in names}
    \cup {Raw(form, "object", "tool_call", k, <<>>, Missing) : k \in {Missing, "list"}}
    \cup {Raw(form, "object", a, Missing, <<>>, Missing) : a \in {"search", Missing}}

\* the texts llm_chat may return for a decision prompt
Responses(names) ==
    JsonObjects("json", names) \cup JsonObjects("prose_json", names)
    \cup {Raw("json", t, Missing, Missing, <<>>, Missing) :
             t \in {"number", "string", "list", "bool", "null"}}
    \cup {Raw(f, "none", Missing, Missing, <<>>, Missing) : f \in {"braces", "text", "empty"}}

\* json.loads of a document: None for null, a dict for an object, else an
\* int, str, list or bool
Loads(raw) ==
    [py |-> CASE raw.type = "null" -> "None"
              [] raw.type = "object" -> "dict"
              [] OTHER -> raw.type,
     action |-> raw.action, tool_kind |-> raw.tool_kind, tool |-> raw.tool,
     answer |-> raw.answer]

PyNone == [py |-> "None", action |-> Missing, tool_kind |-> Missing, tool |-> <<>>,
           answer |-> Missing]

\* a parser that gives an empty dict where _parse_action gives None
_parse_action_or_empty(raw) ==
    IF raw.form \in {"json", "prose_json"} /\ raw.type # "null" THEN Loads(raw)
    ELSE [PyNone EXCEPT !.py = "dict"]

\* _parse_action: json.loads of the whole text; failing that, of the text
\* from the first "{" to the last "}"; failing that, None
_parse_action(raw) ==
    IF raw.form = "json" THEN Loads(raw)
    ELSE IF raw.form \in {"prose_json", "braces"}
         THEN (IF raw.form = "prose_json" THEN Loads(raw) ELSE PyNone)
         ELSE PyNone

\* a value run returns: a str (empty or not), None, or another object
PyStr(src, empty, raw) == [type |-> "str", src |-> src, empty |-> empty, raw |-> raw]
NoAnswer == [type |-> "none-yet", src |-> "", empty |-> TRUE, raw |-> NoRaw]

\* "I couldn't find any relevant knowledge sources for your query."
NoSourceMessage == PyStr("no_source", FALSE, NoRaw)

\* action.get("answer") without the default: None when the object has no answer
AnswerOfFieldOnly(action, raw) ==
    CASE action.answer \in {Missing, "null"} ->
             [type |-> "None", src |-> "answer", empty |-> TRUE, raw |-> NoRaw]
      [] action.answer = "text" -> PyStr("answer", FALSE, NoRaw)
      [] action.answer = "" -> PyStr("answer", TRUE, NoRaw)
      [] OTHER -> [type |-> "number", src |-> "answer", empty |-> FALSE, raw |-> NoRaw]

\* action.get("answer", raw_response): the value of the answer field, the
\* raw response when the object has none
AnswerOf(action, raw) ==
    CASE action.answer = Missing -> PyStr("raw", raw.form = "empty", raw)
      [] action.answer = "text" -> PyStr("answer", FALSE, NoRaw)
      [] action.answer = "" -> PyStr("answer", TRUE, NoRaw)
      [] action.answer = "null" -> [type |-> "None", src |-> "answer", empty |-> TRUE, raw |-> NoRaw]
      [] OTHER -> [type |-> "number", src |-> "answer", empty |-> FALSE, raw |-> NoRaw]

\* the keyword parameters of AgentRunner.run
RunParams == {"query"}

Queries == {"q1"}

Terminal == {"returned", "raised"}

ToolNameSet(tools) == {tools[i].name : i \in DOMAIN tools}

\* tool_map = {t.name: t for t in selected_tools}
ToolByName(tools, name) == ToolMap(tools)[name]

\* a loop of one more iteration than MAX_REASONING_STEPS
LoopRangeOneMore == 1..(MAX_REASONING_STEPS + 1)

\* for step in range(1, MAX_REASONING_STEPS + 1)
LoopRange == 1..MAX_REASONING_STEPS

\* main.py: answer = runner.run(query)
MainQuery ==
    /\ rpc = "ready"
    /\ worker # None
    /\ \E q \in Queries : query' = q
    /\ entry' = "main"
    /\ rpc' = "select"
    /\ UNCHANGED <<callDocs, selected_tools, called_tools, context_parts, step, pending,
                   decisionCalls, synthCalls, synthPrompts, toolCalls, last_response, answer, error>>
    /\ UNCHANGED <<ingestVars, routeVars, chunkVars, rebuildVars, pandasVars, searchVars>>

\* server.py: get_bot_reply(message, docs) calls runner.run(query,
\* allowed_docs=docs); run takes no such keyword and the call raises TypeError
GetBotReply ==
    /\ rpc = "ready"
    /\ worker # None
    /\ \E q \in Queries, docs \in SUBSET AllowedNames :
          /\ query' = q
          /\ callDocs' = docs
    /\ entry' = "server"
    /\ IF {"query", "allowed_docs"} \subseteq RunParams
       THEN rpc' = "select" /\ UNCHANGED error
       ELSE rpc' = "raised" /\ error' = "TypeError"
    /\ UNCHANGED <<selected_tools, called_tools, context_parts, step, pending,
                   decisionCalls, synthCalls, synthPrompts, toolCalls, last_response, answer>>
    /\ UNCHANGED <<ingestVars, routeVars, chunkVars, rebuildVars, pandasVars, searchVars>>

\* a test that never sees an empty selection
NeverEmpty(tools) == FALSE

\* if not selected_tools
NoToolsSelected(tools) == tools = <<>>

\* run, step 1: select_tools(query) with the default top_k and no filter;
\* no tool: return the no-source message
RunSelect ==
    /\ rpc = "select"
    /\ \E ids \in QueryIds(catalog, TOP_K_TOOLS, {}) :
          LET tools == select_tools(worker[1], ids)
          IN /\ selected_tools' = tools
             /\ IF NoToolsSelected(tools)
                THEN rpc' = "returned" /\ answer' = NoSourceMessage /\ UNCHANGED step
                ELSE IF 1 \in LoopRange
                THEN rpc' = "decide" /\ step' = 1 /\ UNCHANGED answer
                ELSE rpc' = "synth" /\ UNCHANGED <<step, answer>>
    /\ called_tools' = {}
    /\ context_parts' = <<>>
    /\ UNCHANGED <<entry, callDocs, query, pending, decisionCalls, synthCalls, synthPrompts, toolCalls,
                   last_response, error>>
    /\ UNCHANGED <<ingestVars, routeVars, chunkVars, rebuildVars, pandasVars, searchVars>>

\* the end of a loop iteration: the next step, or the fallback after the last
NextStepPc == IF step + 1 \in LoopRange THEN "decide" ELSE "synth"
NextStep == IF step + 1 \in LoopRange THEN step + 1 ELSE step

\* a test that forgets called_tools
CanCallAgain(tool_name, tool_map, called) == tool_name \in tool_map

\* the test that lets a named tool run: it is selected and was not called
CanCall(tool_name, tool_map, called) == tool_name \in tool_map /\ tool_name \notin called

\* run, one iteration up to the tool call: the decision llm_chat, _parse_action
\* and the handling of the action
Decide ==
    /\ rpc = "decide"
    /\ decisionCalls' = decisionCalls + 1
    /\ \E raw_response \in Responses(ToolNameSet(selected_tools) \cup {UnknownTool}) :
          LET action == _parse_action(raw_response)
          IN /\ last_response' = raw_response
             /\ IF action.py = "None"
                THEN \* parsing failed: the raw response is the answer
                     /\ rpc' = "returned"
                     /\ answer' = PyStr("raw", raw_response.form = "empty", raw_response)
                     /\ UNCHANGED <<step, pending, toolCalls, error>>
                ELSE IF action.py # "dict"
                THEN \* action.get on an int, str, list or bool
                     /\ rpc' = "raised"
                     /\ error' = "AttributeError"
                     /\ UNCHANGED <<step, pending, toolCalls, answer>>
                ELSE IF action.action = "final_answer"
                THEN /\ rpc' = "returned"
                     /\ answer' = AnswerOf(action, raw_response)
                     /\ UNCHANGED <<step, pending, toolCalls, error>>
                ELSE IF action.action = "tool_call"
                THEN IF action.tool_kind = "list"
                     THEN \* tool_name in tool_map with an unhashable tool_name
                          /\ rpc' = "raised"
                          /\ error' = "TypeError"
                          /\ UNCHANGED <<step, pending, toolCalls, answer>>
                     ELSE LET tool_name == action.tool
                          IN IF /\ action.tool_kind = "str"
                                /\ CanCall(tool_name, ToolNameSet(selected_tools), called_tools)
                             THEN /\ rpc' = "tool"
                                  /\ pending' = tool_name
                                  /\ toolCalls' = Append(toolCalls, [tool |-> tool_name, arg |-> query])
                                  /\ UNCHANGED <<step, answer, error>>
                             ELSE \* already called, or not a selected tool
                                  /\ rpc' = "advance"
                                  /\ UNCHANGED <<step, pending, toolCalls, answer, error>>
                ELSE \* unknown action type
                     /\ rpc' = "advance"
                     /\ UNCHANGED <<step, pending, toolCalls, answer, error>>
    /\ UNCHANGED <<entry, callDocs, query, selected_tools, called_tools, context_parts, synthCalls, synthPrompts>>
    /\ UNCHANGED <<ingestVars, routeVars, chunkVars, rebuildVars, pandasVars, searchVars>>

\* an entry that carries the result without its label
ContextEntryUnlabelled(tool_name, tool, result) ==
    [tool_name |-> <<>>, tool_type |-> "", document_name |-> <<>>, result |-> result]

\* f"[Result from {tool_name} ({tool.tool_type} on '{tool.document_name}')]:\n{result}"
ContextEntry(tool_name, tool, result) ==
    [tool_name |-> tool_name, tool_type |-> tool.tool_type,
     document_name |-> tool.document_name, result |-> result]

\* what tool.function(arg) returns, as far as run is concerned: a text made by
\* that tool for that argument
ResultOf(tool, arg) == [of |-> tool.name, arg |-> arg]

\* a set that keeps the latest name only
KeepLatest(called, tool_name) == {tool_name}

\* called_tools.add(tool_name)
AddCalled(called, tool_name) == called \cup {tool_name}

\* run: tool.function(query) returns; the name is added to called_tools and
\* the labelled result to context_parts
ToolReturns ==
    /\ rpc = "tool"
    /\ LET tool == ToolByName(selected_tools, pending)
       IN context_parts' = Append(context_parts,
                                  ContextEntry(pending, tool,
                                               ResultOf(tool, toolCalls[Len(toolCalls)].arg)))
    /\ called_tools' = AddCalled(called_tools, pending)
    /\ pending' = <<>>
    /\ rpc' = "advance"
    /\ UNCHANGED <<entry, callDocs, query, selected_tools, step, decisionCalls, synthCalls, synthPrompts,
                   toolCalls, last_response, answer, error>>
    /\ UNCHANGED <<ingestVars, routeVars, chunkVars, rebuildVars, pandasVars, searchVars>>

\* run: the iteration ends; the loop takes its next step, or ends after the
\* last one (raw_response and action of the iteration are not read again)
Advance ==
    /\ rpc = "advance"
    /\ rpc' = NextStepPc
    /\ step' = NextStep
    /\ last_response' = NoRaw
    /\ UNCHANGED <<entry, callDocs, query, selected_tools, called_tools, context_parts, pending,
                   decisionCalls, synthCalls, synthPrompts, toolCalls, answer, error>>
    /\ UNCHANGED <<ingestVars, routeVars, chunkVars, rebuildVars, pandasVars, searchVars>>

\* a prompt with the question alone
SynthesisPromptNoContext(q, parts) == [question |-> q, context |-> <<>>]

\* _synthesize_final: the prompt holds "QUESTION: {query}" and, under
\* "RETRIEVED INFORMATION:", the context parts joined ("(no context)" for none)
SynthesisPrompt(q, parts) == [question |-> q, context |-> parts]

\* run, step 3: _synthesize_final(query, context_parts), one llm_chat whose
\* text is returned
Synthesize ==
    /\ rpc = "synth"
    /\ synthCalls' = synthCalls + 1
    /\ synthPrompts' = Append(synthPrompts, SynthesisPrompt(query, context_parts))
    /\ \E empty \in BOOLEAN : answer' = PyStr("synth", empty, NoRaw)
    /\ rpc' = "returned"
    /\ UNCHANGED <<entry, callDocs, query, selected_tools, called_tools, context_parts, step,
                   pending, decisionCalls, toolCalls, last_response, error>>
    /\ UNCHANGED <<ingestVars, routeVars, chunkVars, rebuildVars, pandasVars, searchVars>>

InitRunLocals ==
    /\ rpc = "ready"
    /\ entry = ""
    /\ callDocs = {}
    /\ query = ""
    /\ selected_tools = <<>>
    /\ called_tools = {}
    /\ context_parts = <<>>
    /\ step = 0
    /\ pending = <<>>
    /\ decisionCalls = 0
    /\ synthCalls = 0
    /\ synthPrompts = <<>>
    /\ toolCalls = <<>>
    /\ last_response = NoRaw
    /\ answer = NoAnswer
    /\ error = ""

(***************************************************************************)
(* Specifications.                                                         *)
(***************************************************************************)
InitStore ==
    /\ meta = [s \in Slugs |-> None]
    /\ colls = [c \in CollNames |-> None]
    /\ ppc = "idle"
    /\ queue = <<>>
    /\ results = <<>>
    /\ cur = NoCur
    /\ embedCalls = 0
    /\ llmCalls = 0
    /\ reprocessed = {}
    /\ loadFailed = {}
    /\ failed = None
    /\ startFiles = files
    /\ startMeta = meta
    /\ startColls = colls
    /\ prevFiles = files
    /\ prevResults = None
    /\ runs = 0
    /\ edits = 0

InitCatalog ==
    /\ catalog = [id \in ToolIds |-> None]
    /\ tdExists = FALSE
    /\ builtTools = None
    /\ buildError = ""
    /\ worker = None
    /\ selected = <<>>
    /\ selectArgs = NoSelectArgs

\* ingestion: any content of DATA_DIR, an empty store
InitIngest ==
    /\ files \in [FileNames -> {None} \cup {Some(b) : b \in FileContents}]
    /\ InitStore
    /\ InitCatalog
    /\ InitRunLocals
    /\ InitChunkIdle

NextIngest ==
    \/ ProcessAllStart
    \/ ProcessAllReturn
    \/ ProcessOneBegin
    \/ ExtractText
    \/ EmbedChunks
    \/ DeleteCollection
    \/ CreateCollection
    \/ AddChunks
    \/ Summarize
    \/ AnalyzeTabular
    \/ SummarizeTabular
    \/ UpsertMeta
    \/ IngestionRaises
    \/ WriteFile

SpecIngest == InitIngest /\ [][NextIngest]_vars

\* catalog builds, worker construction and direct routing calls
InitRoute ==
    /\ files = [f \in FileNames |-> None]
    /\ InitStore
    /\ InitCatalog
    /\ InitRunLocals
    /\ InitChunkIdle

NextRoute ==
    \/ BuildTools
    \/ NewWorker
    \/ SelectTools

SpecRoute == InitRoute /\ [][NextRoute]_vars

\* the record sets whose build_tools returns
Buildable == {S \in SUBSET DocNames : UpsertError(ToolNamesOf(ToolsFor[S])) = ""}

\* what an earlier process built: nothing, or the tools of a largest set of
\* documents build_tools accepts
EarlierBuilds == {{}} \cup {S \in Buildable : \A T \in Buildable : ~(S \subseteq T /\ S # T)}

\* a query served by a started process: the catalog holds what an earlier
\* process (if any) and this one persisted, the worker holds this one's tools
Started(earlier, now) ==
    /\ files = [f \in FileNames |-> None]
    /\ InitStore
    /\ LET before == IF earlier = {} THEN [id \in ToolIds |-> None]
                     ELSE _persist_tool_descriptions([id \in ToolIds |-> None],
                                                     ToolsFor[earlier])
           tools == ToolsFor[now]
       IN /\ catalog = _persist_tool_descriptions(before, tools)
          /\ builtTools = Some(tools)
          /\ worker = Some(ToolMap(tools))
    /\ tdExists = TRUE
    /\ buildError = ""
    /\ selected = <<>>
    /\ selectArgs = NoSelectArgs
    /\ InitRunLocals
    /\ InitChunkIdle

InitRun == \E earlier \in EarlierBuilds, now \in Buildable : Started(earlier, now)

\* a query served by the first process on an empty store, DATA_DIR holding
\* one or two documents
InitFirstRun == \E now \in {S \in Buildable : Cardinality(S) <= 2} : Started({}, now)

NextRun ==
    \/ MainQuery
    \/ GetBotReply
    \/ RunSelect
    \/ Decide
    \/ ToolReturns
    \/ Advance
    \/ Synthesize

SpecRun == InitRun /\ [][NextRun]_vars

FirstSpecRun == InitFirstRun /\ [][NextRun]_vars

\* the calls run waits for return
FairSpecRun == FirstSpecRun /\ WF_vars(NextRun)

\* one process runs and answers routing queries; others start on the same
\* store and rebuild the catalog for any set of records
InitRebuild == \E now \in Buildable : Started({}, now)

NextRebuild ==
    \/ RebuildOpen
    \/ RebuildUpsert
    \/ RebuildWrite
    \/ RoutingQuery

SpecRebuild == InitRebuild /\ [][NextRebuild]_vars

\* ingestion by one process while another, started earlier, answers a query
\* with a vector tool
InitRace ==
    /\ files \in [FileNames -> {None} \cup {Some(b) : b \in FileContents}]
    /\ InitStore
    /\ InitCatalog
    /\ InitRunLocals
    /\ InitChunkIdle

NextRace ==
    \/ ProcessAllStart
    \/ ProcessAllReturn
    \/ ProcessOneBegin
    \/ ExtractText
    \/ EmbedChunks
    \/ DeleteCollection
    \/ CreateCollection
    \/ AddChunks
    \/ Summarize
    \/ AnalyzeTabular
    \/ SummarizeTabular
    \/ UpsertMeta
    \/ IngestionRaises
    \/ WriteFile
    \/ VectorCall
    \/ VectorGetCollection
    \/ VectorQuery

SpecRace == InitRace /\ [][NextRace]_vars

\* ingestion again after a change, over a DATA_DIR whose files hold up to
\* three distinct contents (two files of one slug and a changed content that
\* differs from both)
InitReingest ==
    /\ files \in [FileNames -> {None} \cup {Some(b) : b \in StartContents}]
    /\ InitStore
    /\ InitCatalog
    /\ InitRunLocals
    /\ InitChunkIdle

NextReingest ==
    \/ ProcessAllStart
    \/ ProcessAllReturn
    \/ ProcessOneBegin
    \/ ExtractText
    \/ EmbedChunks
    \/ DeleteCollection
    \/ CreateCollection
    \/ AddChunks
    \/ Summarize
    \/ AnalyzeTabular
    \/ SummarizeTabular
    \/ UpsertMeta
    \/ IngestionRaises
    \/ WriteFile

SpecReingest == InitReingest /\ [][NextReingest]_vars

\* a process with pandas tools, whose functions are called from any number
\* of threads
InitPandas ==
    /\ files = [f \in FileNames |-> None]
    /\ InitStore
    /\ InitCatalog
    /\ InitRunLocals
    /\ InitChunkIdle

NextPandas ==
    \/ PandasCall
    \/ SaveStdout
    \/ RedirectStdout
    \/ ExecCode
    \/ RestoreStdout
    \/ PandasReturn
    \/ ExceptReturn

SpecPandas == InitPandas /\ [][NextPandas]_vars

\* _chunk_text called on any text with any chunk_size and overlap < chunk_size
InitChunk ==
    /\ files = [f \in FileNames |-> None]
    /\ InitStore
    /\ InitCatalog
    /\ InitRunLocals
    /\ chunkArgs \in [text : ChunkTexts, chunk_size : 1..MaxChunkSize, overlap : 0..(MaxChunkSize - 1)]
    /\ chunkArgs.overlap < chunkArgs.chunk_size
    /\ chunkOut = None
    /\ bpc = "idle"
    /\ bTools = <<>>
    /\ bInfos = <<>>
    /\ seen = [called |-> FALSE, ids |-> <<>>, during |-> "idle"]
    /\ sys_stdout = Original
    /\ ipc = [k \in Invocations |-> "idle"]
    /\ code = [k \in Invocations |-> NoCode]
    /\ old_stdout = [k \in Invocations |-> Original]
    /\ captured_output = [k \in Invocations |-> <<>>]
    /\ local_result = [k \in Invocations |-> None]
    /\ returned = [k \in Invocations |-> NotReturned]
    /\ vpc = "idle"
    /\ vColl = <<>>
    /\ vStale = FALSE
    /\ vOut = NoSearchResult

NextChunk ==
    \/ ChunkText

SpecChunk == InitChunk /\ [][NextChunk]_vars

(***************************************************************************)
(* Claims about ingestion.                                                 *)
(***************************************************************************)
\* the DocumentInfo records of a result list that carry the name f
RecordsOf(res, f) == {res[i] : i \in {j \in DOMAIN res : res[j].name = f}}

\* the files whose bytes differ between the start of the run before and the
\* start of the last run
ChangedFiles == {f \in FileNames : prevFiles[f] # startFiles[f]}

\* two process_all runs have returned, one after the other
TwoRunsReturned == ppc = "done" /\ prevResults # None

\* C4: two consecutive process_all runs with no file changed in between: the
\* second returns the DocumentInfo list of the first and makes no
\* embed_model.encode call and no llm_chat call.
C4_SecondRunIdempotent ==
    (TwoRunsReturned /\ ChangedFiles = {})
        => (results = prevResults[1] /\ embedCalls = 0 /\ llmCalls = 0)

\* C5: after a process_all that returned, the bytes of exactly one file are
\* changed and process_all runs again: that file alone goes through the full
\* pipeline, its new hash is stored, and every other file's record is the one
\* the run before returned.
C5_OnlyChangedFileReprocessed ==
    \A f \in FileNames :
        (TwoRunsReturned /\ ChangedFiles = {f} /\ prevFiles[f] # None /\ startFiles[f] # None)
            => /\ reprocessed = {f}
               /\ meta[_slugify(f)] # None
               /\ meta[_slugify(f)][1].metadata.file_hash = _file_hash(startFiles[f][1])
               /\ \A g \in FileNames \ {f} : RecordsOf(results, g) = RecordsOf(prevResults[1], g)

\* process_all has ended, by returning or by an exception
ProcessAllEnded == runs > 0 /\ ppc \in {"done", "raised"}

\* C9: when process_all has ended, every supported file other than the one
\* whose processing raised has a record in the results and metadata in the
\* store.
C9_FailureDoesNotAbortTheRest ==
    ProcessAllEnded =>
        \A g \in Supported(startFiles) :
            \/ (failed # None /\ failed[1].file = g)
            \/ (RecordsOf(results, g) # {} /\ meta[_slugify(g)] # None)

\* the processing of f failed at some step of the last run: a call raised out
\* of _process_one, or the tabular load raised inside _analyze_tabular
FailedInRun(f) == f \in loadFailed \/ (failed # None /\ failed[1].file = f)

\* C10: no metadata record carrying the current content hash of a file whose
\* processing failed is in the store.
C10_NoRecordOfFailedFile ==
    \A f \in FileNames :
        (startFiles[f] # None /\ FailedInRun(f))
            => ~(/\ meta[_slugify(f)] # None
                 /\ meta[_slugify(f)][1].metadata.file_hash = _file_hash(startFiles[f][1]))

(***************************************************************************)
(* Claims about routing and the reasoning loop.                            *)
(***************************************************************************)
C1_Bounds ==
    /\ decisionCalls <= MAX_REASONING_STEPS
    /\ synthCalls <= 1
    /\ step <= MAX_REASONING_STEPS

\* C1: a run that selected at least one tool makes at most MAX_REASONING_STEPS
\* decision calls and at most one synthesis call, its step counter never
\* exceeds MAX_REASONING_STEPS, and it ends, whatever the decisions are.
C1_RunTerminatesWithinBounds ==
    /\ [](C1_Bounds)
    /\ (rpc = "decide") ~> (rpc \in Terminal)

\* a run that used every step and fell back to the synthesis
C1_Witness ==
    /\ rpc = "returned"
    /\ decisionCalls = MAX_REASONING_STEPS
    /\ step = MAX_REASONING_STEPS
    /\ synthCalls = 1

\* C2: whatever text the decision calls return, run(query) ends by returning
\* a non-empty text string and never raises.
C2_RunReturnsNonEmptyText ==
    (entry = "main" /\ rpc \in Terminal) =>
        (rpc = "returned" /\ answer.type = "str" /\ ~answer.empty)

\* C3: no tool name appears twice among the tools a run executed.
C3_NoToolInvokedTwice ==
    \A i, j \in DOMAIN toolCalls : i # j => toolCalls[i].tool # toolCalls[j].tool

\* a step whose decision named a tool an earlier step executed, and ran nothing
C3_Witness ==
    /\ rpc = "advance"
    /\ last_response.action = "tool_call"
    /\ last_response.tool_kind = "str"
    /\ step > 1
    /\ \E k \in DOMAIN toolCalls : k < Len(toolCalls) /\ toolCalls[k].tool = last_response.tool

C8_FilterReachesSelection ==
    (entry = "server" /\ callDocs # {} /\ rpc \in Terminal) =>
        /\ rpc = "returned"
        /\ \A i \in DOMAIN selected_tools : selected_tools[i].document_name \in callDocs
        /\ Visible(catalog, callDocs) = {} => (answer = NoSourceMessage /\ toolCalls = <<>>)

\* C12: a run whose selection is empty returns the no-source message at
\* once, with no decision call, no tool call and no synthesis call.
C12_NoToolsReturnsAtOnce ==
    (entry = "main" /\ rpc \notin {"ready", "select"} /\ selected_tools = <<>>) =>
        /\ rpc = "returned"
        /\ answer = NoSourceMessage
        /\ decisionCalls = 0
        /\ synthCalls = 0
        /\ toolCalls = <<>>
        /\ context_parts = <<>>

\* a run that returned the no-source message although the catalog holds
\* entries: the nearest entries are all of an earlier build
C12_Witness ==
    /\ entry = "main"
    /\ rpc = "returned"
    /\ selected_tools = <<>>
    /\ answer = NoSourceMessage
    /\ \E id \in ToolIds : catalog[id] # None

\* the response is not JSON as a whole, and neither is its text from the
\* first "{" to the last "}"
ParseFails(raw) == raw.form \in {"braces", "text", "empty"}

\* C13: when a decision response parses neither way, run returns at that
\* step the whole raw response, runs no tool and makes no further call of the
\* language model.
C13_ParseFailureReturnsRaw ==
    ParseFails(last_response) =>
        /\ rpc = "returned"
        /\ answer.type = "str"
        /\ answer.src = "raw"
        /\ answer.raw = last_response
        /\ pending = <<>>
        /\ Len(toolCalls) = Len(context_parts)
        /\ decisionCalls = step
        /\ synthCalls = 0

\* a second step whose response has braces but is no JSON, after a tool ran
C13_Witness ==
    /\ rpc = "returned"
    /\ last_response.form = "braces"
    /\ step = 2
    /\ Len(toolCalls) = 1

\* a tool_call whose tool is a string
NamesTool(raw) == raw.action = "tool_call" /\ raw.tool_kind = "str"

\* the selected tool of a name
SelectedTool(name) ==
    selected_tools[CHOOSE i \in DOMAIN selected_tools : selected_tools[i].name = name]

\* the decision step of C14: the response names a selected tool not yet called
C14_Invokes ==
    (/\ rpc = "decide"
     /\ NamesTool(last_response')
     /\ \E i \in DOMAIN selected_tools : selected_tools[i].name = last_response'.tool
     /\ last_response'.tool \notin called_tools)
    => /\ rpc' = "tool"
       /\ toolCalls' = Append(toolCalls, [tool |-> last_response'.tool, arg |-> query])
       /\ called_tools' = called_tools
       /\ context_parts' = context_parts

\* the return of the tool invoked by that step
C14_Records ==
    (rpc = "tool")
    => /\ toolCalls' = toolCalls
       /\ LET name == toolCalls[Len(toolCalls)].tool
              tool == SelectedTool(name)
          IN /\ called_tools' = called_tools \cup {name}
             /\ Len(context_parts') = Len(context_parts) + 1
             /\ SubSeq(context_parts', 1, Len(context_parts)) = context_parts
             /\ context_parts'[Len(context_parts')].tool_name = name
             /\ context_parts'[Len(context_parts')].tool_type = tool.tool_type
             /\ context_parts'[Len(context_parts')].document_name = tool.document_name
             /\ context_parts'[Len(context_parts')].result.of = name
             /\ context_parts'[Len(context_parts')].result.arg = query

SoftFails(raw) ==
    /\ raw.form \in {"json", "prose_json"}
    /\ raw.type = "object"
    /\ raw.action # "final_answer"
    /\ ~(/\ NamesTool(raw)
         /\ \E i \in DOMAIN selected_tools : selected_tools[i].name = raw.tool
         /\ raw.tool \notin called_tools)

\* C15: a step whose tool_call names an unknown or already called tool, or
\* whose action is neither tool_call nor final_answer, changes neither
\* called_tools nor context_parts and invokes no tool; the loop goes on to its
\* next step.
C15_SoftFailStepIsNoOp ==
    [][(rpc = "decide" /\ SoftFails(last_response'))
       => /\ rpc' = "advance"
          /\ called_tools' = called_tools
          /\ context_parts' = context_parts
          /\ toolCalls' = toolCalls]_vars

\* run returned from _synthesize_final
SynthesisReturned == rpc = "returned" /\ answer.src = "synth"

\* C16: when MAX_REASONING_STEPS decision steps end without a final answer
\* and without a parse failure, run makes one synthesis call whose prompt
\* holds the query and all of context_parts, calls no tool after it and
\* returns its text; no run makes a synthesis call otherwise.
C16_SynthesisOnlyAfterLastStep ==
    /\ synthCalls = Len(synthPrompts)
    /\ synthCalls <= 1
    /\ (rpc = "synth") =>
          /\ synthCalls = 0
          /\ step = MAX_REASONING_STEPS
          /\ decisionCalls = MAX_REASONING_STEPS
    /\ (/\ rpc = "returned"
        /\ decisionCalls = MAX_REASONING_STEPS
        /\ last_response = NoRaw) => SynthesisReturned
    /\ (synthCalls = 1) <=> SynthesisReturned
    /\ SynthesisReturned =>
          /\ decisionCalls = MAX_REASONING_STEPS
          /\ last_response = NoRaw
          /\ Len(synthPrompts) = 1
          /\ synthPrompts[1].question = query
          /\ synthPrompts[1].context = context_parts
          /\ pending = <<>>
          /\ Len(toolCalls) = Len(context_parts)
          /\ \A i \in DOMAIN toolCalls : context_parts[i].tool_name = toolCalls[i].tool

\* a synthesis over the results of two tools
C16_Witness ==
    /\ SynthesisReturned
    /\ Len(synthPrompts[1].context) = 2
    /\ synthPrompts[1].question = "q1"

\* the response parsed to an object whose action is final_answer
IsFinalAnswer(raw) ==
    /\ raw.form \in {"json", "prose_json"}
    /\ raw.type = "object"
    /\ raw.action = "final_answer"

\* C17: on a final_answer run returns at that step the value of the answer
\* field, or the raw response when the object has no answer field; it calls
\* no tool and makes no further llm_chat call.
C17_FinalAnswerReturnsAnswerField ==
    IsFinalAnswer(last_response) =>
        /\ rpc = "returned"
        /\ IF last_response.answer = Missing
           THEN answer.type = "str" /\ answer.src = "raw" /\ answer.raw = last_response
           ELSE /\ answer.src = "answer"
                /\ answer.type = CASE last_response.answer \in {"text", ""} -> "str"
                                   [] last_response.answer = "null" -> "None"
                                   [] OTHER -> "number"
                /\ answer.empty = (last_response.answer \in {"", "null"})
        /\ pending = <<>>
        /\ Len(toolCalls) = Len(context_parts)
        /\ decisionCalls = step
        /\ synthCalls = 0

\* a final_answer without an answer field at the second step, after one tool
C17_Witness ==
    /\ rpc = "returned"
    /\ IsFinalAnswer(last_response)
    /\ last_response.answer = Missing
    /\ step = 2
    /\ Len(toolCalls) = 1

C18_CalledWithinSelected == called_tools \subseteq ToolNameSet(selected_tools)

\* C18: in every state of a run called_tools holds names of selected tools
\* only, and no step of the run removes a name from it.
C18_CalledSubsetAndGrowing ==
    /\ [](C18_CalledWithinSelected)
    /\ [][(rpc \notin {"ready", "select"}) => called_tools \subseteq called_tools']_vars

\* two tools were called, both selected
C18_Witness ==
    /\ Cardinality(called_tools) = 2
    /\ Len(selected_tools) = 3
    /\ rpc = "advance"

NonEmptyCatalog(cat) == \E id \in ToolIds : cat[id] # None

\* C19: once the catalog holds an entry no step of a later rebuild empties
\* it, and a routing query made while a rebuild is under way gets at least
\* one id.
C19_RebuildNeverEmptiesCatalog ==
    /\ [](NonEmptyCatalog(catalog))
    /\ [](seen.called => seen.ids # <<>>)
    /\ [][\A id \in ToolIds : catalog[id] # None => catalog'[id] # None]_vars

\* a routing query between the opening of the collection and the end of the
\* upsert of a rebuild
C19_Witness ==
    /\ seen.called
    /\ seen.during = "write"
    /\ seen.ids # <<>>
    /\ bpc = "write"

\* the ids the catalog holds
CatalogNames(cat) == {id \in ToolIds : cat[id] # None}

\* C20: after every build_tools call that returned, the catalog's entry names
\* are the names of the tools just built; no entry of a document that is no
\* longer among the records remains.
C20_CatalogEqualsBuiltTools ==
    (builtTools # None) => CatalogNames(catalog) = ToolNameSet(builtTools[1])

(***************************************************************************)
(* Claims about chunking.                                                  *)
(***************************************************************************)
\* ceil(a / b) for b > 0
CeilDiv(a, b) == -((-a) \div b)

\* C11: a text of length L > 0 chunked with size C and overlap O < C gives
\* exactly ceil((L - O) / (C - O)) chunks.
C11_ChunkCountFormula ==
    (chunkOut # None /\ Len(chunkArgs.text) > 0) =>
        Len(chunkOut[1]) = CeilDiv(Len(chunkArgs.text) - chunkArgs.overlap,
                                   chunkArgs.chunk_size - chunkArgs.overlap)

(***************************************************************************)
(* Claims about the names of documents and tools.                          *)
(***************************************************************************)
\* C21: the tools build_tools makes of the records of distinct supported
\* files have pairwise distinct names.
C21_BuiltToolNamesDistinct == ~HasDuplicates(ToolNamesOf(bTools))

\* C22: two files of distinct names ingested by one process_all are given
\* distinct slugs (hence distinct metadata keys and chunk collections).
C22_DistinctFilesDistinctSlugs ==
    \A i, j \in DOMAIN results :
        results[i].name # results[j].name => results[i].slug # results[j].slug

\* the tools of a type made for a document
ToolsOfType(tools, type, name) ==
    {k \in DOMAIN tools : tools[k].tool_type = type /\ tools[k].document_name = name}

TabularCount(infos) == Cardinality({i \in DOMAIN infos : infos[i].is_tabular})
NarrativeCount(infos) == Cardinality({i \in DOMAIN infos : ~infos[i].is_tabular})

\* C23: build_tools makes one pandas tool for each tabular record and one
\* vector and one summary tool for each other record, T + 2N tools in all,
\* each with the document_name of its record.
C23_OneOrTwoToolsPerRecord ==
    (bpc = "upsert") =>
        /\ Len(bTools) = TabularCount(bInfos) + 2 * NarrativeCount(bInfos)
        /\ \A k \in DOMAIN bTools : \E i \in DOMAIN bInfos : bTools[k].document_name = bInfos[i].name
        /\ \A i \in DOMAIN bInfos :
              LET n(type) == Cardinality(ToolsOfType(bTools, type, bInfos[i].name))
              IN IF bInfos[i].is_tabular
                 THEN n("pandas") = 1 /\ n("vector") = 0 /\ n("summary") = 0
                 ELSE n("pandas") = 0 /\ n("vector") = 1 /\ n("summary") = 1

\* a build for one tabular and two narrative records
C23_Witness ==
    /\ bpc = "upsert"
    /\ TabularCount(bInfos) = 1
    /\ NarrativeCount(bInfos) = 2
    /\ Len(bTools) = 5

(***************************************************************************)
(* Claims about the pandas tool.                                           *)
(***************************************************************************)
\* C24: whatever executing the generated code does (it ends normally, raises
\* an error, or asks to exit), pandas_fn returns a text and no exception
\* leaves it.
C24_PandasToolAlwaysReturnsText ==
    \A k \in Invocations :
        ipc[k] \in {"returned", "raised"} => (ipc[k] = "returned" /\ returned[k].kind = "str")

\* invocation k takes the step that returns after a normal exec
ReturnsNormally(k) == ipc[k] = "return" /\ ipc'[k] = "returned"

\* C25 as stated: after a normal exec pandas_fn returns the text of result if
\* it was set, otherwise the captured output if that is not empty, otherwise
\* the no-result message.
C25_ResultThenOutputThenMessage ==
    [][\A k \in Invocations :
          ReturnsNormally(k) =>
              returned'[k].text =
                  (IF local_result[k] # None THEN local_result[k][1]
                   ELSE IF captured_output[k] # <<>> THEN captured_output[k]
                   ELSE NoResultMessage)]_vars

\* C25, amended: after a normal exec pandas_fn returns the text of result if
\* it was set, otherwise the captured output with the white space at its ends
\* stripped if what is left is not empty, otherwise the no-result message.
C25_ResultThenStrippedOutputThenMessage ==
    [][\A k \in Invocations :
          ReturnsNormally(k) =>
              /\ returned'[k].kind = "str"
              /\ returned'[k].text =
                    (IF local_result[k] # None THEN local_result[k][1]
                     ELSE IF Strip(captured_output[k]) # <<>> THEN Strip(captured_output[k])
                     ELSE NoResultMessage)]_vars

\* no result was set and the output, printed with a blank before it, is
\* returned stripped; another invocation printed blanks only and got the message
C25_Witness ==
    \E k, j \in Invocations :
        /\ ipc[k] = "returned"
        /\ code[k].ends = "normal"
        /\ code[k].result = None
        /\ captured_output[k] = <<" ", "o">>
        /\ returned[k].text = <<"o">>
        /\ ipc[j] = "returned"
        /\ code[j].ends = "normal"
        /\ code[j].result = None
        /\ captured_output[j] = <<" ">>
        /\ returned[j].text = NoResultMessage

\* C30: when every invocation of pandas_fn that was started has ended,
\* sys.stdout is the original stream again.
C30_StdoutRestoredAfterAllInvocations ==
    (\A k \in Invocations : ipc[k] \in {"idle", "returned", "raised"}) => sys_stdout = Original

(***************************************************************************)
(* Claims about the order of the selection.                                *)
(***************************************************************************)
\* the places of the returned ids that the worker holds a tool for
KnownPlaces(ids, tools) == {i \in DOMAIN ids : ids[i] \in DOMAIN tools}

\* C26: select_tools returns the tools in the order of the ids the catalog
\* query returned; an id the worker holds no tool for is left out, without an
\* error and without changing the order of the others.
C26_SelectionKeepsRankOrder ==
    seen.called =>
        LET tools == worker[1]
        IN /\ Len(selected) = Cardinality(KnownPlaces(seen.ids, tools))
           /\ \A a \in DOMAIN selected :
                 /\ selected[a].name \in DOMAIN tools
                 /\ selected[a] = tools[selected[a].name]
                 /\ \E i \in KnownPlaces(seen.ids, tools) :
                       /\ seen.ids[i] = selected[a].name
                       /\ Cardinality({j \in KnownPlaces(seen.ids, tools) : j < i}) = a - 1

\* the query returned three ids, the second of a tool the worker does not
\* hold; the first and the third are selected, in that order
C26_Witness ==
    /\ seen.called
    /\ Len(seen.ids) = 3
    /\ seen.ids[2] \notin DOMAIN worker[1]
    /\ Len(selected) = 2
    /\ selected[1].name = seen.ids[1]
    /\ selected[2].name = seen.ids[3]

\* C27: _chunk_text returns at least one chunk for every text, the empty and
\* the blank ones included, and the one placeholder chunk for a text of
\* length 0.
C27_AtLeastOneChunk ==
    (chunkOut # None) =>
        /\ Len(chunkOut[1]) >= 1
        /\ \A i \in DOMAIN chunkOut[1] : chunkOut[1][i] # <<>>
        /\ (Len(chunkArgs.text) = 0) => chunkOut[1] = <<EmptyDocument>>

\* the call on the empty text has returned the placeholder
C27_Witness ==
    /\ chunkOut # None
    /\ chunkArgs.text = <<>>
    /\ chunkOut[1] = <<EmptyDocument>>

(***************************************************************************)
(* Claims about the store of a narrative document.                         *)
(***************************************************************************)
\* the chunks of the content whose hash is stored under a slug
ChunksOfStored(m) ==
    _chunk_text(_extract_text(m.metadata.file_name, m.metadata.file_hash[2]),
                MAX_CHUNK_CHARS, CHUNK_OVERLAP_CHARS)

\* C29: whenever no process_all is running, the metadata stored under the
\* slug of a narrative document with content hash h goes with a collection
\* doc_<slug> that exists and holds the chunks of the content of hash h, as
\* many as the stored chunk count.
C29_MetaHashImpliesCollection ==
    Idle =>
        \A s \in Slugs :
            (meta[s] # None /\ meta[s][1].metadata.is_tabular = "False") =>
                /\ colls[DocCollection(s)] # None
                /\ colls[DocCollection(s)][1].documents = ChunksOfStored(meta[s][1])
                /\ IntToStr(Len(colls[DocCollection(s)][1].documents)) = meta[s][1].metadata.chunk_count

(***************************************************************************)
(* Claims about a vector search during re-ingestion.                       *)
(***************************************************************************)
\* the running _process_one has deleted the collection and not created it yet
Dropped(name) == cur.collection_name = name /\ ppc = "create"

\* it has created the collection and not added the chunks yet
NotRefilled(name) == cur.collection_name = name /\ ppc = "add"

\* C28: nothing keeps a vector_fn call apart from a re-ingestion of its
\* document: a call whose get_collection falls between the deletion and the
\* creation of the collection finds no collection, and one whose query falls
\* between the creation and the adding of the chunks finds an empty one (or a
\* handle that died under it).
C28_SearchInsideReingestion ==
    [][/\ (vpc = "get" /\ vpc' # "get" /\ Dropped(vColl))
          => (vpc' = "raised" /\ vOut'.observed = "missing")
       /\ (vpc = "query" /\ vpc' # "query" /\ NotRefilled(vColl))
          => (vOut'.observed \in {"empty", "stale"} /\ vOut'.kind \in {"no_chunks", "raised"})]_vars

\* a document ingested before was changed and is being ingested again; the
\* search of a process that holds its vector tool found the collection gone
C28_Witness ==
    /\ vpc = "raised"
    /\ vOut.observed = "missing"
    /\ vOut.ingest = "create"
    /\ Dropped(vColl)
    /\ startMeta[cur.slug] # None
    /\ startMeta[cur.slug][1].metadata.file_name = cur.name
    /\ startMeta[cur.slug][1].metadata.file_hash # cur.current_hash

(***************************************************************************)
(* Claims about a failure of the embedding call during re-ingestion.       *)
(***************************************************************************)
\* encode raised in the _process_one of the current file
EmbeddingFailed ==
    /\ ppc = "raised"
    /\ failed = Some([file |-> cur.name, step |-> "embed"])

\* before the run the store held a record of the current file, with another
\* content hash, and its chunk collection
ChangedSinceStored ==
    /\ startMeta[cur.slug] # None
    /\ startMeta[cur.slug][1].metadata.file_name = cur.name
    /\ startMeta[cur.slug][1].metadata.is_tabular = "False"
    /\ startMeta[cur.slug][1].metadata.file_hash # cur.current_hash
    /\ startColls[cur.collection_name] # None

\* C31: when the batched embedding call fails during the re-ingestion of a
\* changed narrative document, the chunk collection of the document and its
\* metadata record are what they were when the process_all run began.
C31_EmbeddingFailureLeavesStoreAsBefore ==
    (EmbeddingFailed /\ ChangedSinceStored) =>
        /\ meta[cur.slug] = startMeta[cur.slug]
        /\ colls[cur.collection_name] = startColls[cur.collection_name]

====
